---- MODULE Spec2Model ----
(***************************************************************************)
(* Model of anagram.py: the lazily built signature index and difficulty   *)
(* buckets, the query API (solve, verify) and the puzzle generator.       *)
(*                                                                         *)
(* A string is a sequence of code points (Latin-1 range); the Python str  *)
(* methods strip, lower, isalpha and the builtin sorted are modelled on   *)
(* code points.  Python's None is the empty set and a present value x is  *)
(* the singleton {x}.                                                      *)
(***************************************************************************)
EXTENDS Integers, Sequences, FiniteSets, TLC

VARIABLES
    fileExists,     \* DICTIONARY_PATH.exists()
    file,           \* the lines of sowpods.txt, in file order
    ANAGRAM_MAP,    \* _ANAGRAM_MAP
    BUCKET_WORDS,   \* _BUCKET_WORDS
    MIN_LEN,        \* _MIN_LEN
    MAX_LEN,        \* _MAX_LEN
    loads,          \* number of completed _load_words() calls
    call,           \* the last public call and its arguments
    result,         \* what that call returned or raised
    rand,           \* what random.shuffle produced during the last call
    pc,             \* per thread: position inside _init
    local           \* per thread: the locals of _init

vars == <<fileExists, file, ANAGRAM_MAP, BUCKET_WORDS, MIN_LEN, MAX_LEN,
          loads, call, result, rand, pc, local>>

globals == <<ANAGRAM_MAP, BUCKET_WORDS, MIN_LEN, MAX_LEN>>

----------------------------------------------------------------------------
(* Bounds and input sets *)

MaxLines == 2          \* lines in a generated dictionary file
MaxLength == 12        \* largest word length tried for the length -> tier map
NumThreads == 2        \* concurrent callers of _init

Ord == ("a" :> 97) @@ ("b" :> 98) @@ ("d" :> 100) @@ ("e" :> 101) @@
       ("g" :> 103) @@ ("i" :> 105) @@ ("o" :> 111) @@ ("u" :> 117) @@
       ("D" :> 68) @@ ("G" :> 71) @@ ("O" :> 79) @@ (" " :> 32) @@
       ("-" :> 45) @@ ("E'" :> 201) @@ ("e'" :> 233) @@ ("1" :> 49)

\* the string whose characters are the given ones
S(chars) == [k \in 1..Len(chars) |-> Ord[chars[k]]]

\* lines a generated dictionary file is made of
LinePool == { S(<<"a">>), S(<<"e">>), S(<<"d", "g">>), S(<<"d", "o", "g">>),
              S(<<"G", "O", "D", " ">>), S(<<" ">>) }

\* a dictionary in which every single-vowel mutation is again a word
VowelFile == << S(<<"a">>), S(<<"e">>), S(<<"i">>), S(<<"o">>), S(<<"u">>) >>

\* a dictionary whose lengths 1, 3, 5 fill tiers 1, 3, 5 and leave 2, 4 empty
LongFile == << S(<<"a">>), S(<<"d", "o", "g">>), S(<<"a", "b", "o", "d", "e">>) >>

Files == UNION { [1..n -> LinePool] : n \in 0..MaxLines }
             \cup { VowelFile, LongFile }

\* string arguments tried for solve and verify
Inputs == { S(<<>>), S(<<" ">>), S(<<"d", "g", "o">>), S(<<" ", "D", "O", "G">>),
            S(<<"d", "-", "g">>), S(<<"g", "d">>), S(<<"E'", "a">>),
            S(<<"a", "1">>), S(<<"a", " ", "e">>), S(<<"e">>) }

\* answers tried for verify
Answers == { S(<<>>), S(<<"d", "o", "g">>), S(<<"G", "o", "d", " ">>),
             S(<<"o", "d", "g">>), S(<<"a", "-">>), S(<<"e'", "a">>),
             S(<<"e">>) }

\* strings tried for _shuffle_not_identity on its own
ShuffleInputs == { S(<<>>), S(<<"a">>), S(<<"a", "a">>), S(<<"a", "b">>),
                   S(<<"a", "a", "a">>), S(<<"a", "b", "a">>),
                   S(<<"d", "o", "g">>), S(<<"a", "b", "b", "a">>) }

None == {}
Some(x) == {x}
Val(opt) == CHOOSE x \in opt : TRUE

DifficultyInputs == { None } \cup { Some(d) : d \in 0..6 }

Threads == 1..NumThreads

----------------------------------------------------------------------------
(* Python str methods on code points *)

IsSpace(c) == c \in {9, 10, 11, 12, 13, 28, 29, 30, 31, 32, 133, 160}

IsAlphaChar(c) ==
    \/ c \in 65..90
    \/ c \in 97..122
    \/ c \in {170, 181, 186}
    \/ c \in 192..214
    \/ c \in 216..246
    \/ c \in 248..255

LowerChar(c) ==
    IF c \in 65..90 \/ c \in 192..214 \/ c \in 216..222 THEN c + 32 ELSE c

RECURSIVE LStrip(_)
LStrip(s) == IF s # <<>> /\ IsSpace(Head(s)) THEN LStrip(Tail(s)) ELSE s

RECURSIVE RStrip(_)
RStrip(s) ==
    IF s # <<>> /\ IsSpace(s[Len(s)]) THEN RStrip(SubSeq(s, 1, Len(s) - 1)) ELSE s

Strip(s) == RStrip(LStrip(s))

Lower(s) == [k \in 1..Len(s) |-> LowerChar(s[k])]

IsAlpha(s) == s # <<>> /\ \A k \in 1..Len(s) : IsAlphaChar(s[k])

RECURSIVE Insert(_, _)
Insert(c, s) ==
    IF s = <<>> THEN <<c>>
    ELSE IF c <= Head(s) THEN <<c>> \o s
    ELSE <<Head(s)>> \o Insert(c, Tail(s))

\* sorted(s): the characters in ascending code point order
RECURSIVE Sorted(_)
Sorted(s) == IF s = <<>> THEN <<>> ELSE Insert(Head(s), Sorted(Tail(s)))

\* every arrangement random.shuffle can leave a list in
Shuffles(s) ==
    { [k \in 1..Len(s) |-> s[p[k]]] : p \in Permutations(1..Len(s)) }

----------------------------------------------------------------------------
(* anagram.py *)

VOWELS == { Ord["a"], Ord["e"], Ord["i"], Ord["o"], Ord["u"] }

VowelOrder == S(<<"a", "e", "i", "o", "u">>)

signature(s) == Sorted(s)

\* _load_words: [err |-> "" , words |-> ...] or the error raised
load_words(exists, lines) ==
    LET stripped == [k \in 1..Len(lines) |-> Strip(lines[k])]
        kept     == SelectSeq(stripped, LAMBDA w : w # <<>>)
        words    == [k \in 1..Len(kept) |-> Lower(kept[k])]
    IN  IF ~exists THEN [err |-> "FileNotFoundError", words |-> <<>>]
        ELSE IF words = <<>> THEN [err |-> "ValueError: empty dictionary", words |-> <<>>]
        ELSE [err |-> "", words |-> words]

Lengths(words) == { Len(words[k]) : k \in 1..Len(words) }
MinOf(set) == CHOOSE m \in set : \A x \in set : m <= x
MaxOf(set) == CHOOSE m \in set : \A x \in set : x <= m

Clamp15(x) == IF x < 1 THEN 1 ELSE IF x > 5 THEN 5 ELSE x

\* variant: the length is not taken relative to the shortest word
difficulty_from_zero(length, minLen, maxLen) ==
    IF minLen = None \/ maxLen = None THEN 0
    ELSE IF Val(maxLen) = Val(minLen) THEN 3
    ELSE LET span == (Val(maxLen) - Val(minLen)) + 1
             idx  == (length * 5) \div span
         IN  Clamp15(idx + 1)

\* _difficulty_for_length with the globals passed in; 0 stands for the
\* RuntimeError("Dictionary not initialized")
difficulty_for_length(length, minLen, maxLen) ==
    IF minLen = None \/ maxLen = None THEN 0
    ELSE IF Val(maxLen) = Val(minLen) THEN 3
    ELSE LET span == (Val(maxLen) - Val(minLen)) + 1
             idx  == ((length - Val(minLen)) * 5) \div span
         IN  Clamp15(idx + 1)

\* variant: the index is keyed by the word instead of its signature
build_map_by_word(words) ==
    LET keys == { words[k] : k \in 1..Len(words) }
    IN  [key \in keys |-> SelectSeq(words, LAMBDA w : w = key)]

\* the loop of lines 64-69, signature index part: sig -> words in file order
build_anagram_map(words) ==
    LET sigs == { signature(words[k]) : k \in 1..Len(words) }
    IN  [sig \in sigs |-> SelectSeq(words, LAMBDA w : signature(w) = sig)]

\* the loop of lines 64-69, bucket part; an absent key is the empty list
natural_buckets(words, minLen, maxLen) ==
    [d \in 1..5 |->
        SelectSeq(words, LAMBDA w : difficulty_for_length(Len(w), minLen, maxLen) = d)]

\* bucket_words.get(k) is truthy
Filled(bw, k) == k \in 1..5 /\ bw[k] # <<>>

\* variant: only the buckets below d are searched
nearest_below(bw, d) ==
    LET hits == { delta \in 1..4 : Filled(bw, d - delta) }
    IN  IF hits = {} THEN 0 ELSE d - MinOf(hits)

\* lines 74-81: the bucket copied into the empty bucket d, 0 when there is none
nearest(bw, d) ==
    LET hits == { delta \in 1..4 : Filled(bw, d - delta) \/ Filled(bw, d + delta) }
    IN  IF hits = {} THEN 0
        ELSE LET delta == MinOf(hits)
             IN  IF Filled(bw, d - delta) THEN d - delta ELSE d + delta

\* lines 71-84 from bucket d on: [ok, bw]
RECURSIVE fallback_fill(_, _)
fallback_fill(bw, d) ==
    IF d > 5 THEN [ok |-> TRUE, bw |-> bw]
    ELSE IF Filled(bw, d) THEN fallback_fill(bw, d + 1)
    ELSE IF nearest(bw, d) = 0 THEN [ok |-> FALSE, bw |-> bw]
    ELSE fallback_fill([e \in 1..5 |-> IF e = d THEN bw[nearest(bw, d)] ELSE bw[e]],
                       d + 1)

\* variant: the surrounding whitespace is not stripped
validate_unstripped(s) ==
    LET normalized == Lower(s)
    IN  IF normalized = <<>> THEN [err |-> "ValueError: empty", val |-> <<>>]
        ELSE IF ~IsAlpha(normalized) THEN [err |-> "ValueError: alphabetic", val |-> <<>>]
        ELSE [err |-> "", val |-> normalized]

\* _validate_input
validate_input(s) ==
    LET normalized == Lower(Strip(s))
    IN  IF normalized = <<>> THEN [err |-> "ValueError: empty", val |-> <<>>]
        ELSE IF ~IsAlpha(normalized) THEN [err |-> "ValueError: alphabetic", val |-> <<>>]
        ELSE [err |-> "", val |-> normalized]

\* _ANAGRAM_MAP.get(sig, [])
map_get(map, sig) == IF sig \in DOMAIN map THEN map[sig] ELSE <<>>

InSeq(x, seq) == \E k \in 1..Len(seq) : seq[k] = x

\* _single_vowel_mutations: the substitutions in the order they are yielded
single_vowel_mutations(word) ==
    LET vowel_positions == SelectSeq([k \in 1..Len(word) |-> k],
                                     LAMBDA k : word[k] \in VOWELS)
        others(c) == SelectSeq(VowelOrder, LAMBDA v : v # c)
    IN  [m \in 1..(4 * Len(vowel_positions)) |->
            LET pos == vowel_positions[((m - 1) \div 4) + 1]
            IN  [j \in 1..Len(word) |->
                    IF j = pos THEN others(word[pos])[((m - 1) % 4) + 1]
                    ELSE word[j]]]

\* variant: no forced swap when the shuffle gives the word back
shuffle_only(word, candidate, indices) == candidate

\* _shuffle_not_identity, given what shuffle(letters) and shuffle(indices)
\* produced
shuffle_not_identity(word, candidate, indices) ==
    IF candidate # word THEN candidate
    ELSE LET n == Len(candidate)
             pairs == { q \in (1..n) \X (1..n) :
                          /\ q[1] < q[2]
                          /\ candidate[indices[q[1]]] # candidate[indices[q[2]]] }
         IN  IF pairs = {} THEN candidate
             ELSE LET first == CHOOSE q \in pairs : \A r \in pairs :
                                   \/ q[1] < r[1]
                                   \/ (q[1] = r[1] /\ q[2] <= r[2])
                      idx1 == indices[first[1]]
                      idx2 == indices[first[2]]
                  IN  [j \in 1..n |->
                          IF j = idx1 THEN candidate[idx2]
                          ELSE IF j = idx2 THEN candidate[idx1]
                          ELSE candidate[j]]

\* every value _shuffle_not_identity(word) can return
shuffle_results(word) ==
    { shuffle_not_identity(word, candidate, indices) :
        candidate \in Shuffles(word),
        indices \in Shuffles([k \in 1..Len(word) |-> k]) }

RECURSIVE Concat(_)
Concat(seqs) == IF seqs = <<>> THEN <<>> ELSE Head(seqs) \o Concat(Tail(seqs))

\* variant: the first mutation is taken without looking it up in the index
first_mutation(shuffled_words, map) ==
    LET tried == Concat([k \in 1..Len(shuffled_words) |->
                             single_vowel_mutations(shuffled_words[k])])
    IN  IF tried = <<>> THEN <<>> ELSE tried[1]

\* lines 233-237: the first mutation, in search order, whose signature is
\* not in the index; <<>> when every mutation is a live signature
first_absent(shuffled_words, map) ==
    LET tried == Concat([k \in 1..Len(shuffled_words) |->
                             single_vowel_mutations(shuffled_words[k])])
        absent == { m \in 1..Len(tried) : signature(tried[m]) \notin DOMAIN map }
    IN  IF absent = {} THEN <<>> ELSE tried[MinOf(absent)]

HasVowel(w) == \E k \in 1..Len(w) : w[k] \in VOWELS

\* every outcome of _generate_unsolvable_from_words(words)
generate_unsolvable_from_words(words, map) ==
    LET words_with_vowels == SelectSeq(words, HasVowel)
    IN  IF words_with_vowels = <<>>
        THEN { [err |-> "RuntimeError: no vowels", val |-> <<>>] }
        ELSE UNION {
               LET mutated == first_absent(shuffled_words, map)
               IN  IF mutated = <<>>
                   THEN { [err |-> "RuntimeError: all mutations valid", val |-> <<>>] }
                   ELSE { [err |-> "", val |-> p] : p \in shuffle_results(mutated) }
               : shuffled_words \in Shuffles(words_with_vowels) }

\* _init run to completion by one caller: the globals it leaves, the error
\* it raised ("" for none) and whether it read the dictionary
init(exists, lines, am, bw, mn, mx) ==
    IF am # None /\ bw # None
    THEN [err |-> "", am |-> am, bw |-> bw, mn |-> mn, mx |-> mx, loaded |-> 0]
    ELSE LET lw == load_words(exists, lines)
         IN  IF lw.err # ""
             THEN [err |-> lw.err, am |-> am, bw |-> bw, mn |-> mn, mx |-> mx,
                   loaded |-> 0]
             ELSE LET words  == lw.words
                      minLen == Some(MinOf(Lengths(words)))
                      maxLen == Some(MaxOf(Lengths(words)))
                      filled == fallback_fill(natural_buckets(words, minLen, maxLen), 1)
                  IN  IF ~filled.ok
                      THEN [err |-> "RuntimeError: no buckets", am |-> am, bw |-> bw,
                            mn |-> minLen, mx |-> maxLen, loaded |-> 1]
                      ELSE [err |-> "", am |-> Some(build_anagram_map(words)),
                            bw |-> Some(filled.bw),
                            mn |-> minLen, mx |-> maxLen, loaded |-> 1]

\* the _init() call that opens every public function
Initialised == init(fileExists, file, ANAGRAM_MAP, BUCKET_WORDS, MIN_LEN, MAX_LEN)

SetGlobals(g) ==
    /\ ANAGRAM_MAP' = g.am
    /\ BUCKET_WORDS' = g.bw
    /\ MIN_LEN' = g.mn
    /\ MAX_LEN' = g.mx
    /\ loads' = loads + g.loaded

NoCall == [op |-> "none", puzzle |-> <<>>, answer |-> <<>>,
           difficulty |-> None, unsolvable |-> FALSE, length |-> 0]

NoResult == [kind |-> "none", err |-> "", val |-> <<>>, fresh |-> TRUE]

NoLocal == [words |-> <<>>, anagram_map |-> None, bucket_words |-> None]

Raise(e) == [kind |-> "error", err |-> e, val |-> <<>>, fresh |-> TRUE]
Return(v) == [kind |-> "ok", err |-> "", val |-> v, fresh |-> TRUE]

\* variant: the index's own list is returned instead of a copy
solve_shared(map, puzzle) ==
    LET v == validate_input(puzzle)
    IN  IF v.err # "" THEN Raise(v.err)
        ELSE [kind |-> "ok", err |-> "", fresh |-> FALSE,
              val |-> map_get(map, signature(v.val))]

\* solve(puzzle): what it returns or raises, given the index
solve(map, puzzle) ==
    LET v == validate_input(puzzle)
    IN  IF v.err # "" THEN Raise(v.err)
        ELSE Return(map_get(map, signature(v.val)))

\* variant: the answer is not looked up in the anagram class
verify_signature_only(map, puzzle, answer) ==
    LET vp == validate_input(puzzle)
        va == validate_input(answer)
    IN  IF vp.err # "" THEN Raise(vp.err)
        ELSE IF va.err # "" THEN Raise(va.err)
        ELSE IF signature(vp.val) # signature(va.val) THEN Return(FALSE)
        ELSE Return(signature(vp.val) \in DOMAIN map)

\* verify(puzzle, answer)
verify(map, puzzle, answer) ==
    LET vp == validate_input(puzzle)
        va == validate_input(answer)
    IN  IF vp.err # "" THEN Raise(vp.err)
        ELSE IF va.err # "" THEN Raise(va.err)
        ELSE IF signature(vp.val) # signature(va.val) THEN Return(FALSE)
        ELSE Return(InSeq(va.val, map_get(map, signature(vp.val))))

\* variant: the tiers are read from the hardest down
generate_puzzle_reversed(map, buckets, difficulty, unsolvable) ==
    UNION {
        IF d \notin 1..5 THEN { Raise("ValueError: difficulty") }
        ELSE LET words == buckets[6 - d]
             IN  IF ~unsolvable
                 THEN UNION { { Return(p) : p \in shuffle_results(words[k]) }
                              : k \in 1..Len(words) }
                 ELSE { IF o.err # "" THEN Raise(o.err) ELSE Return(o.val)
                        : o \in generate_unsolvable_from_words(words, map) }
        : d \in (IF difficulty = None THEN 1..5 ELSE difficulty) }

\* generate_puzzle(difficulty, unsolvable) after _init: every outcome
generate_puzzle(map, buckets, difficulty, unsolvable) ==
    UNION {
        IF d \notin 1..5 THEN { Raise("ValueError: difficulty") }
        ELSE LET words == buckets[d]
             IN  IF ~unsolvable
                 THEN UNION { { Return(p) : p \in shuffle_results(words[k]) }
                              : k \in 1..Len(words) }
                 ELSE { IF o.err # "" THEN Raise(o.err) ELSE Return(o.val)
                        : o \in generate_unsolvable_from_words(words, map) }
        : d \in (IF difficulty = None THEN 1..5 ELSE difficulty) }

----------------------------------------------------------------------------------------------------------------------------------------
(* The public API called from a single thread *)

Uninitialised ==
    /\ ANAGRAM_MAP = None
    /\ BUCKET_WORDS = None
    /\ MIN_LEN = None
    /\ MAX_LEN = None
    /\ loads = 0
    /\ call = NoCall
    /\ result = NoResult
    /\ rand = <<>>
    /\ pc = [t \in Threads |-> "idle"]
    /\ local = [t \in Threads |-> NoLocal]

Init ==
    /\ fileExists \in BOOLEAN
    /\ file \in IF fileExists THEN Files ELSE { <<>> }
    /\ Uninitialised

\* the caller is between two calls
Idle == call.op = "none"

Solve ==
    \E puzzle \in Inputs :
        LET g == Initialised
        IN  /\ Idle
            /\ SetGlobals(g)
            /\ call' = [NoCall EXCEPT !.op = "solve", !.puzzle = puzzle]
            /\ result' = IF g.err # "" THEN Raise(g.err)
                         ELSE solve(Val(g.am), puzzle)
            /\ UNCHANGED <<fileExists, file, rand, pc, local>>

Verify ==
    \E puzzle \in Inputs, answer \in Answers :
        LET g == Initialised
        IN  /\ Idle
            /\ SetGlobals(g)
            /\ call' = [NoCall EXCEPT !.op = "verify", !.puzzle = puzzle,
                                      !.answer = answer]
            /\ result' = IF g.err # "" THEN Raise(g.err)
                         ELSE verify(Val(g.am), puzzle, answer)
            /\ UNCHANGED <<fileExists, file, rand, pc, local>>

GeneratePuzzle ==
    \E difficulty \in DifficultyInputs, unsolvable \in BOOLEAN :
        LET g == Initialised
        IN  /\ Idle
            /\ SetGlobals(g)
            /\ call' = [NoCall EXCEPT !.op = "generate_puzzle",
                                      !.difficulty = difficulty,
                                      !.unsolvable = unsolvable]
            /\ result' \in IF g.err # "" THEN { Raise(g.err) }
                           ELSE generate_puzzle(Val(g.am), Val(g.bw),
                                                difficulty, unsolvable)
            /\ UNCHANGED <<fileExists, file, rand, pc, local>>

\* the caller appends to the list solve returned; a list that is not a
\* copy is the index's own list for the puzzle's signature
CallerMutates ==
    /\ call.op = "solve"
    /\ result.kind = "ok"
    /\ LET sig == signature(validate_input(call.puzzle).val)
           map == Val(ANAGRAM_MAP)
       IN  /\ result' = [result EXCEPT !.val = Append(@, S(<<"a">>))]
           /\ ANAGRAM_MAP' =
                 IF result.fresh \/ sig \notin DOMAIN map THEN ANAGRAM_MAP
                 ELSE Some([map EXCEPT ![sig] = Append(@, S(<<"a">>))])
    /\ call' = [call EXCEPT !.op = "solve, then list mutated"]
    /\ UNCHANGED <<fileExists, file, BUCKET_WORDS, MIN_LEN, MAX_LEN, loads,
                   rand, pc, local>>

\* the caller is done with the result
Returned ==
    /\ ~Idle
    /\ call' = NoCall
    /\ result' = NoResult
    /\ UNCHANGED <<fileExists, file, globals, loads, rand, pc, local>>

Next == Solve \/ Verify \/ GeneratePuzzle \/ CallerMutates \/ Returned

Spec == Init /\ [][Next]_vars

----------------------------------------------------------------------------
(* _shuffle_not_identity on its own *)

InitShuffle ==
    /\ fileExists = TRUE
    /\ file = <<>>
    /\ Uninitialised

ShuffleNotIdentity ==
    \E word \in ShuffleInputs :
        \E candidate \in Shuffles(word),
           indices \in Shuffles([k \in 1..Len(word) |-> k]) :
            /\ call' = [NoCall EXCEPT !.op = "_shuffle_not_identity",
                                      !.puzzle = word]
            /\ rand' = [candidate |-> candidate, indices |-> indices]
            /\ result' = Return(shuffle_not_identity(word, candidate, indices))
            /\ UNCHANGED <<fileExists, file, globals, loads, pc, local>>

NextShuffle == ShuffleNotIdentity

SpecShuffle == InitShuffle /\ [][NextShuffle]_vars

----------------------------------------------------------------------------
(* _difficulty_for_length on its own, as the loop of _init calls it once    *)
(* _MIN_LEN and _MAX_LEN are set                                            *)

InitDifficulty ==
    /\ fileExists = TRUE
    /\ file = <<>>
    /\ ANAGRAM_MAP = None
    /\ BUCKET_WORDS = None
    /\ \E lo \in 1..MaxLength, hi \in 1..MaxLength :
          /\ lo <= hi
          /\ MIN_LEN = Some(lo)
          /\ MAX_LEN = Some(hi)
    /\ loads = 1
    /\ call = NoCall
    /\ result = Return(<<>>)
    /\ rand = <<>>
    /\ pc = [t \in Threads |-> "idle"]
    /\ local = [t \in Threads |-> NoLocal]

\* one call; the result keeps the previous call's answer next to the new one
DifficultyForLength ==
    \E length \in Val(MIN_LEN)..Val(MAX_LEN) :
        LET d == difficulty_for_length(length, MIN_LEN, MAX_LEN)
        IN  /\ call' = [NoCall EXCEPT !.op = "_difficulty_for_length",
                                      !.length = length]
            /\ result' = Return(<<[length |-> length, tier |-> d]>>
                                \o (IF result.val = <<>> THEN <<>>
                                    ELSE <<result.val[1]>>))
            /\ UNCHANGED <<fileExists, file, globals, loads, rand, pc, local>>

NextDifficulty == DifficultyForLength

SpecDifficulty == InitDifficulty /\ [][NextDifficulty]_vars

----------------------------------------------------------------------------
(* _init entered by several threads; one action per statement that reads   *)
(* or writes a global                                                       *)

\* a public function is called and calls _init (lines 113, 134, 166)
Enter(t) ==
    /\ pc[t] = "idle"
    /\ pc' = [pc EXCEPT ![t] = "check"]
    /\ UNCHANGED <<fileExists, file, globals, loads, call, result, rand, local>>

\* line 54-55
Check(t) ==
    /\ pc[t] = "check"
    /\ pc' = [pc EXCEPT ![t] =
                 IF ANAGRAM_MAP # None /\ BUCKET_WORDS # None THEN "idle"
                 ELSE "load"]
    /\ UNCHANGED <<fileExists, file, globals, loads, call, result, rand, local>>

\* line 57
Load(t) ==
    /\ pc[t] = "load"
    /\ LET lw == load_words(fileExists, file)
       IN  IF lw.err # ""
           THEN /\ pc' = [pc EXCEPT ![t] = "idle"]
                /\ UNCHANGED <<loads, local>>
           ELSE /\ pc' = [pc EXCEPT ![t] = "minmax"]
                /\ loads' = loads + 1
                /\ local' = [local EXCEPT ![t].words = lw.words]
    /\ UNCHANGED <<fileExists, file, globals, call, result, rand>>

\* lines 58-59
SetMinMax(t) ==
    /\ pc[t] = "minmax"
    /\ MIN_LEN' = Some(MinOf(Lengths(local[t].words)))
    /\ MAX_LEN' = Some(MaxOf(Lengths(local[t].words)))
    /\ pc' = [pc EXCEPT ![t] = "build"]
    /\ UNCHANGED <<fileExists, file, ANAGRAM_MAP, BUCKET_WORDS, loads, call,
                   result, rand, local>>

\* lines 61-84
Build(t) ==
    /\ pc[t] = "build"
    /\ LET filled == fallback_fill(
                         natural_buckets(local[t].words, MIN_LEN, MAX_LEN), 1)
       IN  IF ~filled.ok
           THEN /\ pc' = [pc EXCEPT ![t] = "idle"]
                /\ UNCHANGED local
           ELSE /\ pc' = [pc EXCEPT ![t] = "publish_map"]
                /\ local' = [local EXCEPT
                      ![t].anagram_map = Some(build_anagram_map(local[t].words)),
                      ![t].bucket_words = Some(filled.bw)]
    /\ UNCHANGED <<fileExists, file, globals, loads, call, result, rand>>

\* line 86
PublishMap(t) ==
    /\ pc[t] = "publish_map"
    /\ ANAGRAM_MAP' = local[t].anagram_map
    /\ pc' = [pc EXCEPT ![t] = "publish_buckets"]
    /\ UNCHANGED <<fileExists, file, BUCKET_WORDS, MIN_LEN, MAX_LEN, loads,
                   call, result, rand, local>>

\* line 87
PublishBuckets(t) ==
    /\ pc[t] = "publish_buckets"
    /\ BUCKET_WORDS' = local[t].bucket_words
    /\ pc' = [pc EXCEPT ![t] = "idle"]
    /\ local' = [local EXCEPT ![t] = NoLocal]
    /\ UNCHANGED <<fileExists, file, ANAGRAM_MAP, MIN_LEN, MAX_LEN, loads,
                   call, result, rand>>

NextThreads ==
    \E t \in Threads :
        \/ Enter(t)
        \/ Check(t)
        \/ Load(t)
        \/ SetMinMax(t)
        \/ Build(t)
        \/ PublishMap(t)
        \/ PublishBuckets(t)

SpecThreads == Init /\ [][NextThreads]_vars

----------------------------------------------------------------------------
(* What the claims are stated in: the dictionary as a list of words and    *)
(* letter multisets, defined without the signature                          *)

\* the dictionary: the non-blank lines, trimmed and lowercased, in file order
DictWords == load_words(fileExists, file).words

Count(c, s) == Cardinality({ k \in 1..Len(s) : s[k] = c })
Letters(s) == { s[k] : k \in 1..Len(s) }

\* x and y have the same multiset of characters
SameLetters(x, y) ==
    /\ Len(x) = Len(y)
    /\ \A c \in Letters(x) \cup Letters(y) : Count(c, x) = Count(c, y)

Normal(s) == Lower(Strip(s))

\* non-empty and letters only after trim and lowercase
ValidArg(s) == Normal(s) # <<>> /\ \A k \in 1..Len(Normal(s)) : IsAlphaChar(Normal(s)[k])

\* the dictionary words that are anagrams of x, in file order
AnagramsOf(x) == SelectSeq(DictWords, LAMBDA w : SameLetters(w, x))

Ready == ANAGRAM_MAP # None /\ BUCKET_WORDS # None

----------------------------------------------------------------------------
(* C1 *)

\* C1: after initialisation, solve(p) for a valid p returns exactly the
\* dictionary words with the letter multiset of the normalised p, in file
\* order with duplicates kept (the empty list when there is none); and
\* solve(q) contains w for every dictionary word w and every permutation q
\* of w.
C1_SolveExact ==
    /\ (call.op = "solve" /\ Ready /\ ValidArg(call.puzzle)) =>
          /\ result.kind = "ok"
          /\ result.val = AnagramsOf(Normal(call.puzzle))
    /\ (call.op = "solve" /\ Ready) =>
          \A k \in 1..Len(DictWords) : \A q \in Shuffles(DictWords[k]) :
              /\ solve(Val(ANAGRAM_MAP), q).kind = "ok"
              /\ InSeq(DictWords[k], solve(Val(ANAGRAM_MAP), q).val)

\* solve(" DOG") on the file "GOD ", "dog" returned god, dog in file order
C1_Witness ==
    /\ call.op = "solve"
    /\ call.puzzle = S(<<" ", "D", "O", "G">>)
    /\ result.kind = "ok"
    /\ result.val = << S(<<"g", "o", "d">>), S(<<"d", "o", "g">>) >>

----------------------------------------------------------------------------
(* C2 *)

\* C2: for valid p and q, verify(p, q) returns true exactly when the
\* normalised q is a dictionary word with the letter multiset of the
\* normalised p; when the two signatures differ it returns false and raises
\* nothing.
C2_VerifyIffAnagramWord ==
    (call.op = "verify" /\ Ready /\ ValidArg(call.puzzle) /\ ValidArg(call.answer)) =>
        /\ result.kind = "ok"
        /\ result.val = (/\ SameLetters(Normal(call.puzzle), Normal(call.answer))
                         /\ InSeq(Normal(call.answer), DictWords))
        /\ InSeq(Normal(call.answer), AnagramsOf(Normal(call.puzzle))) =>
              result.val = TRUE
        /\ ~SameLetters(Normal(call.puzzle), Normal(call.answer)) =>
              result.val = FALSE

\* verify("dgo", "God ") returned true
C2_Witness ==
    /\ call.op = "verify"
    /\ call.puzzle = S(<<"d", "g", "o">>)
    /\ call.answer = S(<<"G", "o", "d", " ">>)
    /\ result.kind = "ok"
    /\ result.val = TRUE

----------------------------------------------------------------------------
(* C3 *)

\* every bucket holds a word with a vowel
EveryBucketHasVowel ==
    \A d \in 1..5 : \E k \in 1..Len(Val(BUCKET_WORDS)[d]) :
        HasVowel(Val(BUCKET_WORDS)[d][k])

\* the words got from w by replacing one vowel by another vowel
VowelSwaps(w) ==
    { [j \in 1..Len(w) |-> IF j = k THEN v ELSE w[j]] :
          k \in { i \in 1..Len(w) : w[i] \in VOWELS }, v \in VOWELS } \ { w }

BucketSet(d) == { Val(BUCKET_WORDS)[d][k] : k \in 1..Len(Val(BUCKET_WORDS)[d]) }

\* the difficulties the last generate_puzzle call can have used
UsedDifficulties == IF call.difficulty = None THEN 1..5 ELSE call.difficulty

UnsolvableCall ==
    /\ call.op = "generate_puzzle"
    /\ call.unsolvable
    /\ UsedDifficulties \subseteq 1..5
    /\ Ready
    /\ EveryBucketHasVowel

\* C3 as stated: with a vowel-bearing word in every bucket,
\* generate_puzzle(d, unsolvable=True) always yields a string p with
\* solve(p) == [].
C3_AlwaysYieldsUnsolvable ==
    UnsolvableCall =>
        /\ result.kind = "ok"
        /\ solve(Val(ANAGRAM_MAP), result.val) = Return(<<>>)

\* C3 amended: the call either returns a string p that is a single-vowel
\* mutation, rearranged, of a word of bucket d and has solve(p) == [], or it
\* raises the generation-infeasibility error, and it raises only when every
\* single-vowel mutation of every word of bucket d is an anagram of a
\* dictionary word.
C3_UnsolvableOrInfeasible ==
    UnsolvableCall =>
        \/ /\ result.kind = "ok"
           /\ AnagramsOf(result.val) = <<>>
           /\ solve(Val(ANAGRAM_MAP), result.val) = Return(<<>>)
           /\ \E d \in UsedDifficulties : \E w \in BucketSet(d) :
                 \E m \in VowelSwaps(w) : SameLetters(result.val, m)
        \/ /\ result = Raise("RuntimeError: all mutations valid")
           /\ \E d \in UsedDifficulties : \A w \in BucketSet(d) :
                 \A m \in VowelSwaps(w) : AnagramsOf(m) # <<>>

\* an unsolvable puzzle was returned although the first mutation tried for
\* some word of the bucket ("a" -> "e") is a dictionary word
C3_Witness ==
    /\ UnsolvableCall
    /\ result.kind = "ok"
    /\ \E d \in UsedDifficulties : \E w \in BucketSet(d) :
          \E m \in VowelSwaps(w) : AnagramsOf(m) # <<>>

----------------------------------------------------------------------------
(* C4 *)

\* C4: generate_puzzle(d, unsolvable=False), for d in 1..5 or unspecified,
\* returns a non-empty string that is a permutation of a word of bucket d,
\* so solve of it has at least one word.
C4_SolvableHasSolution ==
    (/\ call.op = "generate_puzzle"
     /\ ~call.unsolvable
     /\ UsedDifficulties \subseteq 1..5
     /\ Ready) =>
        /\ result.kind = "ok"
        /\ result.val # <<>>
        /\ \E d \in UsedDifficulties : \E w \in BucketSet(d) :
              /\ SameLetters(result.val, w)
              /\ InSeq(w, DictWords)
        /\ Len(AnagramsOf(result.val)) >= 1
        /\ solve(Val(ANAGRAM_MAP), result.val).kind = "ok"
        /\ Len(solve(Val(ANAGRAM_MAP), result.val).val) >= 1

\* generate_puzzle(5) returned a rearrangement of the only 5-letter word
C4_Witness ==
    /\ call.op = "generate_puzzle"
    /\ ~call.unsolvable
    /\ call.difficulty = Some(5)
    /\ result.kind = "ok"
    /\ Len(result.val) = 5
    /\ result.val # S(<<"a", "b", "o", "d", "e">>)

----------------------------------------------------------------------------
(* C5 *)

\* C5: whatever the shuffles produce, _shuffle_not_identity(s) returns a
\* permutation of s; it differs from s when s has two distinct characters
\* and equals s otherwise.
C5_ShufflePermutes ==
    call.op = "_shuffle_not_identity" =>
        /\ result.kind = "ok"
        /\ Len(result.val) = Len(call.puzzle)
        /\ SameLetters(result.val, call.puzzle)
        /\ Cardinality(Letters(call.puzzle)) >= 2 => result.val # call.puzzle
        /\ Cardinality(Letters(call.puzzle)) < 2 => result.val = call.puzzle

\* shuffle(letters) gave the word back and the forced swap changed it
C5_Witness ==
    /\ call.op = "_shuffle_not_identity"
    /\ rand.candidate = call.puzzle
    /\ Cardinality(Letters(call.puzzle)) >= 2
    /\ result.val # call.puzzle

----------------------------------------------------------------------------
(* C6 *)

\* C6: however calls interleave, concurrent first calls included, the
\* dictionary is loaded and the index and buckets are built once only.
C6_LoadedOnce == loads <= 1

----------------------------------------------------------------------------
(* C7 *)

NaturalBuckets == natural_buckets(DictWords, MIN_LEN, MAX_LEN)

\* C7: for a non-empty dictionary _init completes, the bucket error is never
\* raised, every bucket 1..5 is non-empty and holds dictionary words only;
\* a bucket with words of its own keeps exactly those.
C7_BucketsNonEmpty ==
    /\ loads >= 1 => Ready
    /\ result.err # "RuntimeError: no buckets"
    /\ Ready =>
          \A d \in 1..5 :
              /\ Val(BUCKET_WORDS)[d] # <<>>
              /\ \A w \in BucketSet(d) : InSeq(w, DictWords)
              /\ NaturalBuckets[d] # <<>> => Val(BUCKET_WORDS)[d] = NaturalBuckets[d]

\* buckets 2 and 4 had no word of their own and were filled from 1 and 3
C7_Witness ==
    /\ Ready
    /\ NaturalBuckets[2] = <<>>
    /\ NaturalBuckets[4] = <<>>
    /\ NaturalBuckets[5] # <<>>
    /\ Val(BUCKET_WORDS)[2] = NaturalBuckets[1]
    /\ Val(BUCKET_WORDS)[4] = NaturalBuckets[3]

----------------------------------------------------------------------------
(* C8 *)

\* C8: once built, the index and the buckets never change, whatever is
\* called and whether or not it fails, and also when the caller changes the
\* list solve returned.
C8_IndexReadOnly ==
    [][Ready => (ANAGRAM_MAP' = ANAGRAM_MAP /\ BUCKET_WORDS' = BUCKET_WORDS)]_vars

\* the caller appended to a non-empty list solve returned; the index still
\* has the list as it was
C8_Witness ==
    /\ call.op = "solve, then list mutated"
    /\ Len(result.val) >= 2
    /\ LET sig == signature(Normal(call.puzzle))
       IN  /\ sig \in DOMAIN Val(ANAGRAM_MAP)
           /\ result.val = Append(Val(ANAGRAM_MAP)[sig], S(<<"a">>))

----------------------------------------------------------------------------
(* C9 *)

\* the error for one argument when only a-z counts as a letter
ArgErrorAZ(s) ==
    IF Normal(s) = <<>> THEN "ValueError: empty"
    ELSE IF \E k \in 1..Len(Normal(s)) : Normal(s)[k] \notin 97..122
         THEN "ValueError: alphabetic"
         ELSE ""

\* the error for one argument when every alphabetic character counts
ArgErrorAlpha(s) ==
    IF Normal(s) = <<>> THEN "ValueError: empty"
    ELSE IF \E k \in 1..Len(Normal(s)) : ~IsAlphaChar(Normal(s)[k])
         THEN "ValueError: alphabetic"
         ELSE ""

\* the first error among the arguments of the last call, puzzle first
FirstError(ArgError(_)) ==
    IF ArgError(call.puzzle) # "" THEN ArgError(call.puzzle)
    ELSE IF call.op = "verify" THEN ArgError(call.answer)
    ELSE ""

\* C9 as stated: each string argument of solve and verify is trimmed and
\* lowercased, then rejected as empty if nothing is left and as
\* non-alphabetic if any character is not a letter a-z; a rejected call
\* returns nothing and a string of letters a-z is never rejected.
C9_RejectsAllButAZ ==
    (call.op \in {"solve", "verify"} /\ Ready) =>
        IF FirstError(ArgErrorAZ) # ""
        THEN result = Raise(FirstError(ArgErrorAZ))
        ELSE result.kind = "ok"

\* C9 amended: as stated, with "alphabetic" meaning what str.isalpha
\* accepts: a character that is a letter outside a-z (such as e-acute) is
\* not rejected.
C9_RejectsNonAlphabetic ==
    (call.op \in {"solve", "verify"} /\ Ready) =>
        IF FirstError(ArgErrorAlpha) # ""
        THEN result = Raise(FirstError(ArgErrorAlpha))
        ELSE result.kind = "ok"

\* verify(" DOG", "a-") was rejected for its answer, the puzzle having
\* passed once trimmed and lowercased
C9_Witness ==
    /\ call.op = "verify"
    /\ call.puzzle = S(<<" ", "D", "O", "G">>)
    /\ call.answer = S(<<"a", "-">>)
    /\ result = Raise("ValueError: alphabetic")

----------------------------------------------------------------------------
(* C10 *)

\* C10: within a length range minLen..maxLen the tier is in 1..5 and never
\* decreases with the length; the shortest length has tier 1 and the longest
\* the highest tier used, or every length has tier 3 when minLen = maxLen.
C10_Monotone ==
    call.op = "_difficulty_for_length" =>
        \A i, j \in 1..Len(result.val) :
            LET x == result.val[i]
                y == result.val[j]
            IN  /\ x.tier \in 1..5
                /\ x.length < y.length => x.tier <= y.tier
                /\ MIN_LEN = MAX_LEN => x.tier = 3
                /\ (MIN_LEN # MAX_LEN /\ x.length = Val(MIN_LEN)) => x.tier = 1
                /\ (x.length = Val(MAX_LEN)) => y.tier <= x.tier

\* two lengths of one range were mapped to different tiers
C10_Witness ==
    /\ call.op = "_difficulty_for_length"
    /\ Len(result.val) = 2
    /\ result.val[1].length < result.val[2].length
    /\ result.val[1].tier < result.val[2].tier
    /\ result.val[2].tier = 5

====
